---- MODULE Spec2Model ----
(***************************************************************************)
(* ALX Polly: the server-side request handlers (auth-actions.ts,           *)
(* poll-actions.ts, api/polls/route.ts) and the client-side session        *)
(* context (auth-context.tsx), as state machines over the managed backend. *)
(* Text is a sequence of one-character strings, so that trimming, length   *)
(* and the regular expressions are computed on the characters.             *)
(***************************************************************************)
EXTENDS Integers, Sequences, FiniteSets, TLC

VARIABLES
    polls,      \* rows of the backend table 'polls'
    nextId,     \* the id the backend assigns to the next inserted poll
    votes,      \* rows of the backend table 'votes', in the order of insertion
    req,        \* the invocation in flight (a submitted form / HTTP request), or NoReq
    resp,       \* what that invocation ended with, or NoResp
    user,       \* AuthProvider: useState<SafeUser>
    session,    \* AuthProvider: useState<SafeSession>
    loading,    \* AuthProvider: useState(true)
    error,      \* AuthProvider: useState<string | null>
    mounted,    \* AuthProvider.useEffect: let mounted
    fetch,      \* AuthProvider.useEffect: where the getUser() promise stands
    subscribed, \* AuthProvider.useEffect: the onAuthStateChange subscription
    signingOut, \* AuthProvider.signOut: where its call of auth.signOut() stands
    notified    \* the last notification delivered to the onAuthStateChange listener

vars ==
    <<polls, nextId, votes, req, resp, user, session, loading, error, mounted, fetch, subscribed,
      signingOut, notified>>
serverVars == <<polls, nextId, votes, req, resp>>
bridgeVars ==
    <<user, session, loading, error, mounted, fetch, subscribed, signingOut, notified>>

---------------------------------------------------------------------------
(* Bounds of the model. *)

\* polls ever inserted in one behaviour (ids 1..MaxPolls)
MaxPolls == 2
\* votes ever inserted in one behaviour
MaxVotes == 3

---------------------------------------------------------------------------
(* JavaScript values and strings. *)

Str(s) == [k |-> "string", s |-> s]
Undefined == [k |-> "undefined", s |-> <<>>]
JsNull == [k |-> "null", s |-> <<>>]
\* a File entry of a FormData (FormDataEntryValue = string | File)
FileEntry == [k |-> "file", s |-> <<>>]
\* a JSON number
Num(s) == [k |-> "number", s |-> s]

IsString(v) == v.k = "string"

\* the error field's null
Null == "<null>"

\* WhiteSpace and LineTerminator code points, as String.prototype.trim and \s see them
WhiteSpace == {" ", "\t", "\n", "\r", "\f"}
\* what '.' does not match (no s flag)
LineTerminators == {"\n", "\r"}

LowerLetters == <<"a","b","c","d","e","f","g","h","i","j","k","l","m",
                  "n","o","p","q","r","s","t","u","v","w","x","y","z">>
UpperLetters == <<"A","B","C","D","E","F","G","H","I","J","K","L","M",
                  "N","O","P","Q","R","S","T","U","V","W","X","Y","Z">>
Digits == {"0","1","2","3","4","5","6","7","8","9"}
Range(f) == {f[i] : i \in DOMAIN f}

\* the canonical form the i flag compares (ASCII letters fold together)
Canonicalize(c) ==
    IF \E i \in 1..26 : LowerLetters[i] = c
    THEN UpperLetters[CHOOSE i \in 1..26 : LowerLetters[i] = c]
    ELSE c

\* String.prototype.trim
RECURSIVE TrimStart(_)
TrimStart(s) ==
    IF s # <<>> /\ Head(s) \in WhiteSpace THEN TrimStart(Tail(s)) ELSE s

RECURSIVE TrimEnd(_)
TrimEnd(s) ==
    IF s # <<>> /\ s[Len(s)] \in WhiteSpace THEN TrimEnd(SubSeq(s, 1, Len(s) - 1)) ELSE s

trim(s) == TrimEnd(TrimStart(s))

\* n copies of "x"
Pad(n) == [i \in 1..n |-> "x"]

---------------------------------------------------------------------------
(* The regular expressions, matched as the engine matches them. *)

\* the literal `lit` at position i of s, compared under the i flag
LiteralAt(s, i, lit) ==
    /\ i + Len(lit) - 1 <= Len(s)
    /\ \A d \in 1..Len(lit) : Canonicalize(s[i + d - 1]) = Canonicalize(lit[d])

\* `.*?` followed by the literal `lit`, from position j; the position after the
\* literal, or 0 when there is no match
RECURSIVE LazyDotThen(_, _, _)
LazyDotThen(s, j, lit) ==
    IF LiteralAt(s, j, lit) THEN j + Len(lit)
    ELSE IF j > Len(s) \/ s[j] \in LineTerminators THEN 0
    ELSE LazyDotThen(s, j + 1, lit)

ScriptOpen == <<"<","s","c","r","i","p","t">>
ScriptClose == <<"<","/","s","c","r","i","p","t",">">>

\* /<script.*?>/i tried at position i
OpenTagAt(s, i) ==
    LiteralAt(s, i, ScriptOpen) /\ LazyDotThen(s, i + Len(ScriptOpen), <<">">>) # 0

\* /<script.*?>/i.test(s): some start position matches
TestScriptOpen(s) == \E i \in 1..Len(s) : OpenTagAt(s, i)

\* /<script.*?>.*?<\/script>/i tried at position i
ScriptBlockAt(s, i) ==
    /\ LiteralAt(s, i, ScriptOpen)
    /\ LET j == LazyDotThen(s, i + Len(ScriptOpen), <<">">>)
       IN  j # 0 /\ LazyDotThen(s, j, ScriptClose) # 0

\* /<script.*?>.*?<\/script>/i.test(s)
TestScriptBlock(s) == \E i \in 1..Len(s) : ScriptBlockAt(s, i)

---------------------------------------------------------------------------
(* Validators. *)

\* a mutant of isValidPollText: the upper length limit is not checked
isValidPollText_NoMax(text) ==
    /\ IsString(text)
    /\ Len(text.s) >= 2
    /\ ~TestScriptOpen(text.s)

\* poll-actions.ts isValidPollText
isValidPollText(text) ==
    /\ IsString(text)
    /\ Len(text.s) >= 2
    /\ Len(text.s) <= 200
    /\ ~TestScriptOpen(text.s)

\* route.ts isValidPollText (its own copy)
routeIsValidPollText(text) ==
    /\ IsString(text)
    /\ Len(text.s) >= 2
    /\ Len(text.s) <= 200
    /\ ~TestScriptOpen(text.s)

\* String(v), as RegExp.prototype.test coerces its argument
ToStr(v) ==
    IF v.k = "undefined" THEN <<"u","n","d","e","f","i","n","e","d">>
    ELSE IF v.k = "null" THEN <<"n","u","l","l">>
    ELSE v.s

\* s[lo..hi] is a non-empty run of [^@\s]
NoAtNoSpaceRun(s, lo, hi) ==
    /\ lo <= hi
    /\ \A i \in lo..hi : s[i] # "@" /\ s[i] \notin WhiteSpace

\* auth-actions.ts isValidEmail: /^[^@\s]+@[^@\s]+\.[^@\s]+$/
isValidEmail(email) ==
    LET s == ToStr(email)
    IN  \E a \in 1..Len(s) : \E d \in 1..Len(s) :
            /\ s[a] = "@"
            /\ s[d] = "."
            /\ a < d
            /\ NoAtNoSpaceRun(s, 1, a - 1)
            /\ NoAtNoSpaceRun(s, a + 1, d - 1)
            /\ NoAtNoSpaceRun(s, d + 1, Len(s))

\* the class [!@#$%^&*()_+\-=[\]{};':"\\|,.<>/?]
SpecialChars ==
    {"!","@","#","$","%","^","&","*","(",")","_","+","-","=","[","]","{","}",
     ";","'",":","\"","\\","|",",",".","<",">","/","?"}

\* the lookahead (?=.*[class]) at the start of s
LookaheadDotStar(s, class) ==
    \E j \in 1..Len(s) :
        /\ s[j] \in class
        /\ \A i \in 1..(j - 1) : s[i] \notin LineTerminators

\* auth-actions.ts isStrongPassword:
\* /^(?=.*[a-z])(?=.*[A-Z])(?=.*\d)(?=.*[special]).{8,}$/
isStrongPassword(password) ==
    LET s == ToStr(password)
    IN  /\ LookaheadDotStar(s, Range(LowerLetters))
        /\ LookaheadDotStar(s, Range(UpperLetters))
        /\ LookaheadDotStar(s, Digits)
        /\ LookaheadDotStar(s, SpecialChars)
        /\ Len(s) >= 8
        /\ \A i \in 1..Len(s) : s[i] \notin LineTerminators

\* auth-actions.ts isValidName
isValidName(name) ==
    /\ IsString(name)
    /\ Len(name.s) >= 2
    /\ ~TestScriptBlock(name.s)

---------------------------------------------------------------------------
(* The backend, as the handlers see it. *)

Users == {"u1", "u2"}
\* no authenticated account
NoUser == "<none>"

\* what a backend error can carry; the handlers never read it
ErrorTexts == {"Invalid login credentials", "User not found"}

\* one backend call ends by resolving without error, resolving with an error
\* value, or raising; auth.getUser() resolves with data.user, the account of the
\* request's session, which is null under an error
Ok(u) == [k |-> "ok", message |-> "", user |-> u]
Err(m) == [k |-> "error", message |-> m, user |-> NoUser]
Raise == [k |-> "raise", message |-> "", user |-> NoUser]
AuthReplies == {Ok(u) : u \in Users \cup {NoUser}} \cup {Raise} \cup {Err(m) : m \in ErrorTexts}
TableReplies == {Ok(NoUser), Raise} \cup {Err(m) : m \in ErrorTexts}

\* the replies one invocation meets: of its auth call and of its table call; a
\* handler that makes both makes the table call only after the auth call
\* resolved without error
Envs == {e \in [auth : AuthReplies, table : TableReplies] :
            e.auth.k # "ok" => e.table = Ok(NoUser)}

\* two environments that differ at most in the text of their errors
SameButErrorText(e1, e2) ==
    /\ e1.auth.k = e2.auth.k
    /\ e1.auth.user = e2.auth.user
    /\ e1.table.k = e2.table.k

NoReq == [op |-> "none", id |-> 0, arg |-> <<>>]
NoResp == [k |-> "none"]

\* an invocation that returned: its result, and the backend calls it made
Return(err, status, data, calls) ==
    [k |-> "return", error |-> err, status |-> status, data |-> data, calls |-> calls]
\* an invocation that ended by an uncaught exception
Fault(calls) ==
    [k |-> "fault", error |-> "<uncaught>", status |-> 0, data |-> <<>>, calls |-> calls]

\* what one run of a handler comes to: its response and the table after it
Outcome(r, p, n) == [resp |-> r, polls |-> p, nextId |-> n]

\* supabase.auth.getUser(): data.user under the reply (null with an error)
GetUserData(reply) == reply.user

Call(fn, arg) == [fn |-> fn, arg |-> arg]
NoArg == <<>>

---------------------------------------------------------------------------
(* poll-actions.ts *)

\* .map((opt) => opt.trim()) over the entries, all of them strings
RECURSIVE MapTrim(_)
MapTrim(vs) ==
    IF vs = <<>> THEN <<>> ELSE <<trim(Head(vs).s)>> \o MapTrim(Tail(vs))

\* .filter(Boolean) over strings: the empty string is dropped
RECURSIVE FilterBoolean(_)
FilterBoolean(ss) ==
    IF ss = <<>> THEN <<>>
    ELSE IF Head(ss) = <<>> THEN FilterBoolean(Tail(ss))
    ELSE <<Head(ss)>> \o FilterBoolean(Tail(ss))

\* !v
Falsy(v) ==
    \/ v.k \in {"undefined", "null"}
    \/ v.k = "string" /\ v.s = <<>>
    \/ v.k = "number" /\ v.s = <<"0">>

\* (formData.get('question') as string)?.trim(): undefined for a missing field
FormQuestion(formData) ==
    IF formData.question.k = "null" THEN Undefined ELSE Str(trim(formData.question.s))

\* reading the form raises a TypeError: an entry that is a File has no trim
FormReadThrows(formData) ==
    \/ formData.question.k \notin {"null", "string"}
    \/ \E i \in 1..Len(formData.options) : formData.options[i].k # "string"

FormOptions(formData) == FilterBoolean(MapTrim(formData.options))

PollRow(id, owner, question, options) ==
    [id |-> id, user_id |-> owner, question |-> question, options |-> options,
     created_at |-> id]

\* a mutant of createPoll: the options are validated but stored as submitted
createPoll_StoresRaw(formData, env, p, n) ==
    IF FormReadThrows(formData) THEN Outcome(Fault(<<>>), p, n)
    ELSE
    LET question == FormQuestion(formData)
        options == FormOptions(formData)
        getUser == Call("auth.getUser", NoArg)
        user_ == GetUserData(env.auth)
        row == PollRow(n, user_, formData.question.s,
                       [i \in 1..Len(formData.options) |-> formData.options[i].s])
        insert == Call("polls.insert", row)
    IN  IF Falsy(question) \/ Len(options) < 2
        THEN Outcome(Return("Please provide a question and at least two options.",
                            0, <<>>, <<>>), p, n)
        ELSE IF ~isValidPollText(question)
        THEN Outcome(Return("Invalid poll question.", 0, <<>>, <<>>), p, n)
        ELSE IF \E i \in 1..Len(options) : ~isValidPollText(Str(options[i]))
        THEN Outcome(Return("Invalid poll option.", 0, <<>>, <<>>), p, n)
        ELSE IF env.auth.k = "raise" THEN Outcome(Fault(<<getUser>>), p, n)
        ELSE IF env.auth.k = "error"
        THEN Outcome(Return("Authentication failed.", 0, <<>>, <<getUser>>), p, n)
        ELSE IF user_ = NoUser
        THEN Outcome(Return("You must be logged in to create a poll.", 0, <<>>,
                            <<getUser>>), p, n)
        ELSE IF env.table.k = "raise" THEN Outcome(Fault(<<getUser, insert>>), p, n)
        ELSE IF env.table.k = "error"
        THEN Outcome(Return("Poll creation failed.", 0, <<>>, <<getUser, insert>>), p, n)
        ELSE Outcome(Return(Null, 0, <<>>, <<getUser, insert>>), p \cup {row}, n + 1)

\* a mutant of createPoll: option values that repeat are stored once
createPoll_StoresDistinct(formData, env, p, n) ==
    IF FormReadThrows(formData) THEN Outcome(Fault(<<>>), p, n)
    ELSE
    LET question == FormQuestion(formData)
        options == FormOptions(formData)
        getUser == Call("auth.getUser", NoArg)
        user_ == GetUserData(env.auth)
        first == {i \in 1..Len(options) : \A j \in 1..(i - 1) : options[j] # options[i]}
        distinct == [m \in 1..Cardinality(first) |->
                        options[CHOOSE i \in first : Cardinality({j \in first : j <= i}) = m]]
        row == PollRow(n, user_, question.s, distinct)
        insert == Call("polls.insert", row)
    IN  IF Falsy(question) \/ Len(options) < 2
        THEN Outcome(Return("Please provide a question and at least two options.",
                            0, <<>>, <<>>), p, n)
        ELSE IF ~isValidPollText(question)
        THEN Outcome(Return("Invalid poll question.", 0, <<>>, <<>>), p, n)
        ELSE IF \E i \in 1..Len(options) : ~isValidPollText(Str(options[i]))
        THEN Outcome(Return("Invalid poll option.", 0, <<>>, <<>>), p, n)
        ELSE IF env.auth.k = "raise" THEN Outcome(Fault(<<getUser>>), p, n)
        ELSE IF env.auth.k = "error"
        THEN Outcome(Return("Authentication failed.", 0, <<>>, <<getUser>>), p, n)
        ELSE IF user_ = NoUser
        THEN Outcome(Return("You must be logged in to create a poll.", 0, <<>>,
                            <<getUser>>), p, n)
        ELSE IF env.table.k = "raise" THEN Outcome(Fault(<<getUser, insert>>), p, n)
        ELSE IF env.table.k = "error"
        THEN Outcome(Return("Poll creation failed.", 0, <<>>, <<getUser, insert>>), p, n)
        ELSE Outcome(Return(Null, 0, <<>>, <<getUser, insert>>), p \cup {row}, n + 1)

\* createPoll(formData), run against table p under the backend replies env
createPoll(formData, env, p, n) ==
    IF FormReadThrows(formData) THEN Outcome(Fault(<<>>), p, n)
    ELSE
    LET question == FormQuestion(formData)
        options == FormOptions(formData)
        getUser == Call("auth.getUser", NoArg)
        user_ == GetUserData(env.auth)
        row == PollRow(n, user_, question.s, options)
        insert == Call("polls.insert", row)
    IN  IF Falsy(question) \/ Len(options) < 2
        THEN Outcome(Return("Please provide a question and at least two options.",
                            0, <<>>, <<>>), p, n)
        ELSE IF ~isValidPollText(question)
        THEN Outcome(Return("Invalid poll question.", 0, <<>>, <<>>), p, n)
        ELSE IF \E i \in 1..Len(options) : ~isValidPollText(Str(options[i]))
        THEN Outcome(Return("Invalid poll option.", 0, <<>>, <<>>), p, n)
        ELSE IF env.auth.k = "raise" THEN Outcome(Fault(<<getUser>>), p, n)
        ELSE IF env.auth.k = "error"
        THEN Outcome(Return("Authentication failed.", 0, <<>>, <<getUser>>), p, n)
        ELSE IF user_ = NoUser
        THEN Outcome(Return("You must be logged in to create a poll.", 0, <<>>,
                            <<getUser>>), p, n)
        ELSE IF env.table.k = "raise" THEN Outcome(Fault(<<getUser, insert>>), p, n)
        ELSE IF env.table.k = "error"
        THEN Outcome(Return("Poll creation failed.", 0, <<>>, <<getUser, insert>>), p, n)
        ELSE Outcome(Return(Null, 0, <<>>, <<getUser, insert>>), p \cup {row}, n + 1)

\* the rows a select returns, newest first (created_at descending)
RECURSIVE NewestFirst(_, _)
NewestFirst(rows, id) ==
    IF id < 1 THEN <<>>
    ELSE (IF \E r \in rows : r.created_at = id
          THEN <<CHOOSE r \in rows : r.created_at = id>> ELSE <<>>)
         \o NewestFirst(rows, id - 1)

\* select('id, question, options, created_at')
Selected(r) ==
    [id |-> r.id, question |-> r.question, options |-> r.options,
     created_at |-> r.created_at]

SelectedAll(rows) == [i \in 1..Len(rows) |-> Selected(rows[i])]

\* a mutant of getUserPolls: the table is queried before the identity is looked at
getUserPolls_SelectsFirst(env, p, n) ==
    LET getUser == Call("auth.getUser", NoArg)
        user_ == GetUserData(env.auth)
        select == Call("polls.select", user_)
    IN  IF env.auth.k = "raise" THEN Outcome(Fault(<<getUser>>), p, n)
        ELSE IF env.table.k = "raise" THEN Outcome(Fault(<<getUser, select>>), p, n)
        ELSE IF user_ = NoUser
        THEN Outcome(Return("Not authenticated", 0, <<>>, <<getUser, select>>), p, n)
        ELSE IF env.table.k = "error"
        THEN Outcome(Return("Failed to fetch polls.", 0, <<>>, <<getUser, select>>), p, n)
        ELSE Outcome(Return(Null, 0,
                 SelectedAll(NewestFirst({r \in p : r.user_id = user_}, n)),
                 <<getUser, select>>), p, n)

\* getUserPolls()
getUserPolls(env, p, n) ==
    LET getUser == Call("auth.getUser", NoArg)
        user_ == GetUserData(env.auth)
        select == Call("polls.select", user_)
    IN  IF env.auth.k = "raise" THEN Outcome(Fault(<<getUser>>), p, n)
        ELSE IF user_ = NoUser
        THEN Outcome(Return("Not authenticated", 0, <<>>, <<getUser>>), p, n)
        ELSE IF env.table.k = "raise" THEN Outcome(Fault(<<getUser, select>>), p, n)
        ELSE IF env.table.k = "error"
        THEN Outcome(Return("Failed to fetch polls.", 0, <<>>, <<getUser, select>>), p, n)
        ELSE Outcome(Return(Null, 0,
                 SelectedAll(NewestFirst({r \in p : r.user_id = user_}, n)),
                 <<getUser, select>>), p, n)

\* getPollById(id): .single() answers with an error unless exactly one row matches
getPollById(id, env, p, n) ==
    LET select == Call("polls.select", id)
        rows == {r \in p : r.id = id}
    IN  IF env.table.k = "raise" THEN Outcome(Fault(<<select>>), p, n)
        ELSE IF env.table.k = "error" \/ Cardinality(rows) # 1
        THEN Outcome(Return("Poll not found.", 0, <<>>, <<select>>), p, n)
        ELSE Outcome(Return(Null, 0, <<Selected(CHOOSE r \in rows : TRUE)>>, <<select>>),
                     p, n)

\* what one run of submitVote comes to: its response and the votes after it
VoteOutcome(r, v) == [resp |-> r, votes |-> v]

\* the row submitVote inserts into votes
VoteRow(pollId, voter, optionIndex) ==
    [poll_id |-> pollId, user_id |-> voter, option_index |-> optionIndex]

\* a mutant of submitVote: an account that already voted on the poll is refused
submitVote_OncePerAccount(pollId, optionIndex, env, v) ==
    LET getUser == Call("auth.getUser", NoArg)
        user_ == GetUserData(env.auth)
        row == VoteRow(pollId, user_, optionIndex)
        insert == Call("votes.insert", row)
    IN  IF env.auth.k = "raise" THEN VoteOutcome(Fault(<<getUser>>), v)
        ELSE IF user_ = NoUser
        THEN VoteOutcome(Return("You must be logged in to vote.", 0, <<>>, <<getUser>>), v)
        ELSE IF env.table.k = "raise" THEN VoteOutcome(Fault(<<getUser, insert>>), v)
        ELSE IF \/ env.table.k = "error"
                \/ \E i \in 1..Len(v) : v[i].poll_id = pollId /\ v[i].user_id = user_
        THEN VoteOutcome(Return("Vote submission failed.", 0, <<>>, <<getUser, insert>>), v)
        ELSE VoteOutcome(Return(Null, 0, <<>>, <<getUser, insert>>), Append(v, row))

\* submitVote(pollId, optionIndex), run against the votes v under the backend
\* replies env; the error value of getUser() is not looked at
submitVote(pollId, optionIndex, env, v) ==
    LET getUser == Call("auth.getUser", NoArg)
        user_ == GetUserData(env.auth)
        row == VoteRow(pollId, user_, optionIndex)
        insert == Call("votes.insert", row)
    IN  IF env.auth.k = "raise" THEN VoteOutcome(Fault(<<getUser>>), v)
        ELSE IF user_ = NoUser
        THEN VoteOutcome(Return("You must be logged in to vote.", 0, <<>>, <<getUser>>), v)
        ELSE IF env.table.k = "raise" THEN VoteOutcome(Fault(<<getUser, insert>>), v)
        ELSE IF env.table.k = "error"
        THEN VoteOutcome(Return("Vote submission failed.", 0, <<>>, <<getUser, insert>>), v)
        ELSE VoteOutcome(Return(Null, 0, <<>>, <<getUser, insert>>), Append(v, row))

\* a mutant of deletePoll: the delete is filtered by id alone
deletePoll_AnyOwner(id, env, p, n) ==
    LET getUser == Call("auth.getUser", NoArg)
        user_ == GetUserData(env.auth)
        delete == Call("polls.delete", [id |-> id, user_id |-> user_])
    IN  IF env.auth.k = "raise" THEN Outcome(Fault(<<getUser>>), p, n)
        ELSE IF env.auth.k = "error"
        THEN Outcome(Return("Authentication failed.", 0, <<>>, <<getUser>>), p, n)
        ELSE IF user_ = NoUser
        THEN Outcome(Return("You must be logged in to delete a poll.", 0, <<>>,
                            <<getUser>>), p, n)
        ELSE IF env.table.k = "raise" THEN Outcome(Fault(<<getUser, delete>>), p, n)
        ELSE IF env.table.k = "error"
        THEN Outcome(Return("Poll deletion failed.", 0, <<>>, <<getUser, delete>>), p, n)
        ELSE Outcome(Return(Null, 0, <<>>, <<getUser, delete>>),
                     {r \in p : ~(r.id = id)}, n)

\* a mutant of deletePoll: a delete that matches no row of the caller is
\* reported as an error
deletePoll_ReportsNoRow(id, env, p, n) ==
    LET getUser == Call("auth.getUser", NoArg)
        user_ == GetUserData(env.auth)
        delete == Call("polls.delete", [id |-> id, user_id |-> user_])
    IN  IF env.auth.k = "raise" THEN Outcome(Fault(<<getUser>>), p, n)
        ELSE IF env.auth.k = "error"
        THEN Outcome(Return("Authentication failed.", 0, <<>>, <<getUser>>), p, n)
        ELSE IF user_ = NoUser
        THEN Outcome(Return("You must be logged in to delete a poll.", 0, <<>>,
                            <<getUser>>), p, n)
        ELSE IF env.table.k = "raise" THEN Outcome(Fault(<<getUser, delete>>), p, n)
        ELSE IF env.table.k = "error"
        THEN Outcome(Return("Poll deletion failed.", 0, <<>>, <<getUser, delete>>), p, n)
        ELSE IF ~\E r \in p : r.id = id /\ r.user_id = user_
        THEN Outcome(Return("Poll not found.", 0, <<>>, <<getUser, delete>>), p, n)
        ELSE Outcome(Return(Null, 0, <<>>, <<getUser, delete>>),
                     {r \in p : ~(r.id = id /\ r.user_id = user_)}, n)

\* deletePoll(id)
deletePoll(id, env, p, n) ==
    LET getUser == Call("auth.getUser", NoArg)
        user_ == GetUserData(env.auth)
        delete == Call("polls.delete", [id |-> id, user_id |-> user_])
    IN  IF env.auth.k = "raise" THEN Outcome(Fault(<<getUser>>), p, n)
        ELSE IF env.auth.k = "error"
        THEN Outcome(Return("Authentication failed.", 0, <<>>, <<getUser>>), p, n)
        ELSE IF user_ = NoUser
        THEN Outcome(Return("You must be logged in to delete a poll.", 0, <<>>,
                            <<getUser>>), p, n)
        ELSE IF env.table.k = "raise" THEN Outcome(Fault(<<getUser, delete>>), p, n)
        ELSE IF env.table.k = "error"
        THEN Outcome(Return("Poll deletion failed.", 0, <<>>, <<getUser, delete>>), p, n)
        ELSE Outcome(Return(Null, 0, <<>>, <<getUser, delete>>),
                     {r \in p : ~(r.id = id /\ r.user_id = user_)}, n)

\* a mutant of UpdateRows: when no row matches, a row of that id is written
UpdateRows_Upserts(p, pollId, owner, question, options) ==
    IF \E r \in p : r.id = pollId /\ r.user_id = owner
    THEN {IF r.id = pollId /\ r.user_id = owner
          THEN [r EXCEPT !.question = question, !.options = options]
          ELSE r : r \in p}
    ELSE {r \in p : r.id # pollId} \cup {PollRow(pollId, owner, question, options)}

\* update({question, options}).eq('id', pollId).eq('user_id', owner) on table p
UpdateRows(p, pollId, owner, question, options) ==
    {IF r.id = pollId /\ r.user_id = owner
     THEN [r EXCEPT !.question = question, !.options = options]
     ELSE r : r \in p}

\* updatePoll(pollId, formData)
updatePoll(pollId, formData, env, p, n) ==
    IF FormReadThrows(formData) THEN Outcome(Fault(<<>>), p, n)
    ELSE
    LET question == FormQuestion(formData)
        options == FormOptions(formData)
        getUser == Call("auth.getUser", NoArg)
        user_ == GetUserData(env.auth)
        update == Call("polls.update", [id |-> pollId, user_id |-> user_,
                                        question |-> question.s, options |-> options])
    IN  IF Falsy(question) \/ Len(options) < 2
        THEN Outcome(Return("Please provide a question and at least two options.",
                            0, <<>>, <<>>), p, n)
        ELSE IF ~isValidPollText(question)
        THEN Outcome(Return("Invalid poll question.", 0, <<>>, <<>>), p, n)
        ELSE IF \E i \in 1..Len(options) : ~isValidPollText(Str(options[i]))
        THEN Outcome(Return("Invalid poll option.", 0, <<>>, <<>>), p, n)
        ELSE IF env.auth.k = "raise" THEN Outcome(Fault(<<getUser>>), p, n)
        ELSE IF env.auth.k = "error"
        THEN Outcome(Return("Authentication failed.", 0, <<>>, <<getUser>>), p, n)
        ELSE IF user_ = NoUser
        THEN Outcome(Return("You must be logged in to update a poll.", 0, <<>>,
                            <<getUser>>), p, n)
        ELSE IF env.table.k = "raise" THEN Outcome(Fault(<<getUser, update>>), p, n)
        ELSE IF env.table.k = "error"
        THEN Outcome(Return("Poll update failed.", 0, <<>>, <<getUser, update>>), p, n)
        ELSE Outcome(Return(Null, 0, <<>>, <<getUser, update>>),
                     UpdateRows(p, pollId, user_, question.s, options), n)

---------------------------------------------------------------------------
(* api/polls/route.ts *)

\* a JSON array
Arr(items) == [k |-> "array", s |-> <<>>, items |-> items]
\* a request body that request.json() cannot parse
BadJson == [k |-> "badjson"]
\* a request body that parses to an object
Body(question, options) == [k |-> "object", question |-> question, options |-> options]

\* GET /api/polls
GET(env, p, n) ==
    LET getUser == Call("auth.getUser", NoArg)
        user_ == GetUserData(env.auth)
        select == Call("polls.select", user_)
    IN  IF env.auth.k = "raise"
        THEN Outcome(Return("Internal server error", 500, <<>>, <<getUser>>), p, n)
        ELSE IF user_ = NoUser
        THEN Outcome(Return("Not authenticated", 401, <<>>, <<getUser>>), p, n)
        ELSE IF env.table.k = "raise"
        THEN Outcome(Return("Internal server error", 500, <<>>, <<getUser, select>>), p, n)
        ELSE IF env.table.k = "error"
        THEN Outcome(Return("Failed to fetch polls.", 500, <<>>, <<getUser, select>>), p, n)
        ELSE Outcome(Return(Null, 200,
                 SelectedAll(NewestFirst({r \in p : r.user_id = user_}, n)),
                 <<getUser, select>>), p, n)

\* POST /api/polls; whatever the try block raises is answered by the catch block
POST(body, env, p, n) ==
    LET caught(calls) == Outcome(Return("Internal server error", 500, <<>>, calls), p, n)
        bad(msg) == Outcome(Return(msg, 400, <<>>, <<>>), p, n)
    IN
    IF body.k = "badjson" THEN caught(<<>>)
    ELSE
    LET question == body.question
        options == body.options
    IN
    IF Falsy(question) \/ options.k # "array" \/ Len(options.items) < 2
    THEN bad("Please provide a question and at least two options.")
    ELSE IF ~IsString(question) THEN caught(<<>>)
    ELSE
    LET sanitizedQuestion == Str(trim(question.s))
    IN
    IF ~routeIsValidPollText(sanitizedQuestion) THEN bad("Invalid poll question.")
    ELSE IF \E i \in 1..Len(options.items) : ~IsString(options.items[i]) THEN caught(<<>>)
    ELSE
    LET sanitizedOptions == FilterBoolean(MapTrim(options.items))
        getUser == Call("auth.getUser", NoArg)
        user_ == GetUserData(env.auth)
        row == PollRow(n, user_, sanitizedQuestion.s, sanitizedOptions)
        insert == Call("polls.insert", row)
    IN
    IF Len(sanitizedOptions) < 2 THEN bad("Please provide at least two valid options.")
    ELSE IF \E i \in 1..Len(sanitizedOptions) :
                ~routeIsValidPollText(Str(sanitizedOptions[i]))
    THEN bad("Invalid poll option.")
    ELSE IF env.auth.k = "raise" THEN caught(<<getUser>>)
    ELSE IF env.auth.k = "error"
    THEN Outcome(Return("Authentication failed.", 401, <<>>, <<getUser>>), p, n)
    ELSE IF user_ = NoUser
    THEN Outcome(Return("You must be logged in to create a poll.", 401, <<>>,
                        <<getUser>>), p, n)
    ELSE IF env.table.k = "raise" THEN caught(<<getUser, insert>>)
    ELSE IF env.table.k = "error"
    THEN Outcome(Return("Poll creation failed.", 500, <<>>, <<getUser, insert>>), p, n)
    ELSE Outcome(Return(Null, 201, <<row>>, <<getUser, insert>>), p \cup {row}, n + 1)

---------------------------------------------------------------------------
(* auth-actions.ts *)

\* a mutant of login: the backend's error message is handed to the caller
login_LeaksMessage(data, env, p, n) ==
    LET signIn == Call("auth.signInWithPassword",
                       [email |-> trim(data.email.s), password |-> data.password.s])
    IN  IF ~isValidEmail(data.email)
        THEN Outcome(Return("Invalid email address.", 0, <<>>, <<>>), p, n)
        ELSE IF ~isStrongPassword(data.password)
        THEN Outcome(Return("Password does not meet security requirements.", 0, <<>>,
                            <<>>), p, n)
        ELSE IF env.auth.k = "raise" THEN Outcome(Fault(<<signIn>>), p, n)
        ELSE IF env.auth.k = "error"
        THEN Outcome(Return(env.auth.message, 0, <<>>, <<signIn>>), p, n)
        ELSE Outcome(Return(Null, 0, <<>>, <<signIn>>), p, n)

\* login(data)
login(data, env, p, n) ==
    LET signIn == Call("auth.signInWithPassword",
                       [email |-> trim(data.email.s), password |-> data.password.s])
    IN  IF ~isValidEmail(data.email)
        THEN Outcome(Return("Invalid email address.", 0, <<>>, <<>>), p, n)
        ELSE IF ~isStrongPassword(data.password)
        THEN Outcome(Return("Password does not meet security requirements.", 0, <<>>,
                            <<>>), p, n)
        ELSE IF env.auth.k = "raise" THEN Outcome(Fault(<<signIn>>), p, n)
        ELSE IF env.auth.k = "error"
        THEN Outcome(Return("Authentication failed.", 0, <<>>, <<signIn>>), p, n)
        ELSE Outcome(Return(Null, 0, <<>>, <<signIn>>), p, n)

\* a mutant of register: the account is signed up before the fields are validated
register_SignsUpFirst(data, env, p, n) ==
    LET signUp == Call("auth.signUp",
                       [email |-> trim(ToStr(data.email)), password |-> data.password.s,
                        name |-> trim(data.name.s)])
    IN  IF env.auth.k = "raise" THEN Outcome(Fault(<<signUp>>), p, n)
        ELSE IF ~isValidEmail(data.email)
        THEN Outcome(Return("Invalid email address.", 0, <<>>, <<signUp>>), p, n)
        ELSE IF ~isStrongPassword(data.password)
        THEN Outcome(Return("Password does not meet security requirements.", 0, <<>>,
                            <<signUp>>), p, n)
        ELSE IF ~isValidName(data.name)
        THEN Outcome(Return("Invalid name.", 0, <<>>, <<signUp>>), p, n)
        ELSE IF env.auth.k = "error"
        THEN Outcome(Return("Registration failed.", 0, <<>>, <<signUp>>), p, n)
        ELSE Outcome(Return(Null, 0, <<>>, <<signUp>>), p, n)

\* register(data)
register(data, env, p, n) ==
    LET signUp == Call("auth.signUp",
                       [email |-> trim(data.email.s), password |-> data.password.s,
                        name |-> trim(data.name.s)])
    IN  IF ~isValidEmail(data.email)
        THEN Outcome(Return("Invalid email address.", 0, <<>>, <<>>), p, n)
        ELSE IF ~isStrongPassword(data.password)
        THEN Outcome(Return("Password does not meet security requirements.", 0, <<>>,
                            <<>>), p, n)
        ELSE IF ~isValidName(data.name)
        THEN Outcome(Return("Invalid name.", 0, <<>>, <<>>), p, n)
        ELSE IF env.auth.k = "raise" THEN Outcome(Fault(<<signUp>>), p, n)
        ELSE IF env.auth.k = "error"
        THEN Outcome(Return("Registration failed.", 0, <<>>, <<signUp>>), p, n)
        ELSE Outcome(Return(Null, 0, <<>>, <<signUp>>), p, n)

\* logout()
logout(env, p, n) ==
    LET signOut_ == Call("auth.signOut", NoArg)
    IN  IF env.auth.k = "raise" THEN Outcome(Fault(<<signOut_>>), p, n)
        ELSE IF env.auth.k = "error"
        THEN Outcome(Return("Logout failed.", 0, <<>>, <<signOut_>>), p, n)
        ELSE Outcome(Return(Null, 0, <<>>, <<signOut_>>), p, n)

---------------------------------------------------------------------------
(* The inputs the invocations are drawn from. *)

Red == <<"R","e","d">>
Blue == <<"B","l","u","e">>
ScriptTag == <<"<","S","c","r","i","p","t",">">>

\* the 'question' entry of a submitted form: missing, a File, blank, too short
\* once trimmed, valid once trimmed, valid, a script tag, too long
FormQuestions ==
    {JsNull, FileEntry, Str(<<" ">>), Str(<<" ","a"," ">>), Str(<<" ","a","b"," ">>),
     Str(<<"c","d">>), Str(ScriptTag), Str(Pad(201))}

\* the 'options' entries of a submitted form
FormOptionLists ==
    {<<>>,
     <<Str(Red)>>,
     <<Str(Red), Str(<<" ">>)>>,
     <<Str(<<" ">> \o Blue \o <<" ">>), Str(<<>>), Str(Red)>>,
     <<Str(Red), Str(Red), Str(<<" ">>)>>,
     <<Str(Red), Str(<<"x">>)>>,
     <<Str(Red), Str(Blue), Str(ScriptTag)>>,
     <<Str(Red), Str(Pad(201))>>,
     <<Str(Red), Str(Blue), FileEntry>>}

FormDatas == [question : FormQuestions, options : FormOptionLists]

\* the JSON bodies of POST /api/polls
JsonQuestions ==
    {Undefined, Str(<<>>), Num(<<"5">>), Str(<<" ","a","b"," ">>), Str(<<" ","a">>),
     Str(ScriptTag)}
JsonOptions ==
    {Undefined, Str(Red),
     Arr(<<Str(Red)>>),
     Arr(<<Str(Blue), Str(<<" ">>), Str(Red)>>),
     Arr(<<Str(Red), Str(<<" ">>)>>),
     Arr(<<Str(Red), Str(<<"x">>)>>),
     Arr(<<Str(Red), Num(<<"5">>)>>),
     Arr(<<Str(Red), JsNull, Str(Blue)>>)}
Bodies == {BadJson} \cup {Body(q, o) : q \in JsonQuestions, o \in JsonOptions}

Email_ab == <<"a","@","b",".","c","o","m">>
Emails == {Undefined, Str(Email_ab), Str(<<" ">> \o Email_ab), Str(<<"a","@","b">>)}
Passwords ==
    {Str(<<"A","b","c","d","e","f","1","!">>),
     Str(<<"a","b","c","d","e","f","g","h">>)}
Names ==
    {Str(<<"J","o">>), Str(<<"J">>), Str(<<" ","a">>),
     Str(ScriptTag \o <<"x">> \o ScriptClose)}

PollIds == 1..MaxPolls

Request(op, id, arg) == [op |-> op, id |-> id, arg |-> arg]

CreatePollRequests == {Request("createPoll", 0, f) : f \in FormDatas}
UpdatePollRequests == {Request("updatePoll", i, f) : i \in PollIds, f \in FormDatas}
DeletePollRequests == {Request("deletePoll", i, <<>>) : i \in PollIds}
GetUserPollsRequests == {Request("getUserPolls", 0, <<>>)}
GetPollByIdRequests == {Request("getPollById", i, <<>>) : i \in PollIds}
GetRequests == {Request("GET", 0, <<>>)}
PostRequests == {Request("POST", 0, b) : b \in Bodies}
LoginRequests ==
    {Request("login", 0, [email |-> e, password |-> w]) : e \in Emails, w \in Passwords}
RegisterRequests ==
    {Request("register", 0, [email |-> e, password |-> w, name |-> m]) :
        e \in Emails, w \in Passwords, m \in Names}
LogoutRequests == {Request("logout", 0, <<>>)}

\* the requests that may insert a row
Creating == CreatePollRequests \cup PostRequests
Requests ==
    Creating \cup UpdatePollRequests \cup DeletePollRequests \cup GetUserPollsRequests
    \cup GetPollByIdRequests \cup GetRequests \cup LoginRequests \cup RegisterRequests
    \cup LogoutRequests

\* the handler a request is dispatched to
Run(r, env, p, n) ==
    CASE r.op = "createPoll" -> createPoll(r.arg, env, p, n)
      [] r.op = "updatePoll" -> updatePoll(r.id, r.arg, env, p, n)
      [] r.op = "deletePoll" -> deletePoll(r.id, env, p, n)
      [] r.op = "getUserPolls" -> getUserPolls(env, p, n)
      [] r.op = "getPollById" -> getPollById(r.id, env, p, n)
      [] r.op = "GET" -> GET(env, p, n)
      [] r.op = "POST" -> POST(r.arg, env, p, n)
      [] r.op = "login" -> login(r.arg, env, p, n)
      [] r.op = "register" -> register(r.arg, env, p, n)
      [] r.op = "logout" -> logout(env, p, n)

---------------------------------------------------------------------------
(* The server: a request arrives, its handler runs to its end, the response
   is taken. *)

ServerInit ==
    /\ polls = {}
    /\ nextId = 1
    /\ votes = <<>>
    /\ req = NoReq
    /\ resp = NoResp

\* the session context before AuthProvider is rendered
BridgeIdle ==
    /\ user = JsNull
    /\ session = JsNull
    /\ loading = TRUE
    /\ error = Null
    /\ mounted = FALSE
    /\ fetch = "none"
    /\ subscribed = FALSE
    /\ signingOut = "no"
    /\ notified = [k |-> "none"]

Init == ServerInit /\ BridgeIdle

\* a form submission or HTTP request arrives
Submit ==
    /\ req.op = "none"
    /\ \E r \in Requests :
        /\ r \in Creating => nextId <= MaxPolls
        /\ req' = r
    /\ UNCHANGED <<polls, nextId, votes, resp>>
    /\ UNCHANGED bridgeVars

\* the invocation as it ended: the handler's response, the account the identity
\* check reported (when it was asked and answered), and the replies it met
Invocation(o, env) ==
    [k |-> o.resp.k, error |-> o.resp.error, status |-> o.resp.status,
     data |-> o.resp.data, calls |-> o.resp.calls,
     caller |-> IF \E i \in 1..Len(o.resp.calls) : o.resp.calls[i].fn = "auth.getUser"
                THEN env.auth.user ELSE NoUser,
     before |-> polls]

\* the handler's run takes effect
Effect(o, env) ==
    /\ polls' = o.polls
    /\ nextId' = o.nextId
    /\ resp' = Invocation(o, env)
    /\ UNCHANGED <<votes, req>>
    /\ UNCHANGED bridgeVars

\* the handler createPoll runs to its end, under some replies of the backend
HandleCreatePoll ==
    /\ req.op = "createPoll"
    /\ resp.k = "none"
    /\ \E env \in Envs : Effect(createPoll(req.arg, env, polls, nextId), env)

\* the handler updatePoll runs to its end, under some replies of the backend
HandleUpdatePoll ==
    /\ req.op = "updatePoll"
    /\ resp.k = "none"
    /\ \E env \in Envs : Effect(updatePoll(req.id, req.arg, env, polls, nextId), env)

\* the handler deletePoll runs to its end, under some replies of the backend
HandleDeletePoll ==
    /\ req.op = "deletePoll"
    /\ resp.k = "none"
    /\ \E env \in Envs : Effect(deletePoll(req.id, env, polls, nextId), env)

\* the handler getUserPolls runs to its end, under some replies of the backend
HandleGetUserPolls ==
    /\ req.op = "getUserPolls"
    /\ resp.k = "none"
    /\ \E env \in Envs : Effect(getUserPolls(env, polls, nextId), env)

\* the handler getPollById runs to its end, under some replies of the backend
HandleGetPollById ==
    /\ req.op = "getPollById"
    /\ resp.k = "none"
    /\ \E env \in Envs : Effect(getPollById(req.id, env, polls, nextId), env)

\* the handler GET runs to its end, under some replies of the backend
HandleGET ==
    /\ req.op = "GET"
    /\ resp.k = "none"
    /\ \E env \in Envs : Effect(GET(env, polls, nextId), env)

\* the handler POST runs to its end, under some replies of the backend
HandlePOST ==
    /\ req.op = "POST"
    /\ resp.k = "none"
    /\ \E env \in Envs : Effect(POST(req.arg, env, polls, nextId), env)

\* the handler login runs to its end, under some replies of the backend
HandleLogin ==
    /\ req.op = "login"
    /\ resp.k = "none"
    /\ \E env \in Envs : Effect(login(req.arg, env, polls, nextId), env)

\* the handler register runs to its end, under some replies of the backend
HandleRegister ==
    /\ req.op = "register"
    /\ resp.k = "none"
    /\ \E env \in Envs : Effect(register(req.arg, env, polls, nextId), env)

\* the handler logout runs to its end, under some replies of the backend
HandleLogout ==
    /\ req.op = "logout"
    /\ resp.k = "none"
    /\ \E env \in Envs : Effect(logout(env, polls, nextId), env)

\* the caller takes the response
Deliver ==
    /\ resp.k # "none"
    /\ req' = NoReq
    /\ resp' = NoResp
    /\ UNCHANGED <<polls, nextId, votes>>
    /\ UNCHANGED bridgeVars

Next ==
    \/ Submit
    \/ HandleCreatePoll
    \/ HandleUpdatePoll
    \/ HandleDeletePoll
    \/ HandleGetUserPolls
    \/ HandleGetPollById
    \/ HandleGET
    \/ HandlePOST
    \/ HandleLogin
    \/ HandleRegister
    \/ HandleLogout
    \/ Deliver

Spec == Init /\ [][Next]_vars

---------------------------------------------------------------------------
(* lib/context/auth-context.tsx *)

\* the backend's accounts: email, and user_metadata.name where it is set
AccountEmail(u) == IF u = "u1" THEN Str(Email_ab) ELSE JsNull
AccountName(u) == IF u = "u1" THEN Str(<<"J","o">>) ELSE Undefined

\* the access tokens the backend issues
Tokens == {"t1", "t2"}

\* the Session objects a notification carries; session.user may be absent
Sessions == [user : Users \cup {NoUser}, access_token : Tokens]

\* v || null
OrNull(v) == IF Falsy(v) THEN JsNull ELSE v

\* the SafeUser built from a backend User
SafeUser(u) == [id |-> u, email |-> AccountEmail(u), name |-> OrNull(AccountName(u))]

\* the SafeSession built from a backend Session
SafeSession(s) ==
    [user_id |-> IF s.user = NoUser THEN "" ELSE s.user, access_token |-> s.access_token]

\* what the first getUser() of the effect comes to: data.user with or without an
\* error value, or a rejected promise
FetchOutcomes ==
    {[k |-> "ok", user |-> u] : u \in Users \cup {NoUser}}
    \cup {[k |-> "error", user |-> NoUser], [k |-> "raise", user |-> NoUser]}

\* AuthProvider is rendered and its effect runs: getUser() is called and the
\* listener is subscribed
Mount ==
    /\ fetch = "none"
    /\ ~mounted
    /\ mounted' = TRUE
    /\ fetch' = "pending"
    /\ subscribed' = TRUE
    /\ UNCHANGED <<user, session, loading, error, signingOut, notified>>
    /\ UNCHANGED serverVars

\* the promise of supabase.auth.getUser() settles and the rest of getUser runs
getUser ==
    /\ fetch = "pending"
    /\ \E out \in FetchOutcomes :
        IF out.k = "raise"
        THEN /\ fetch' = "rejected"
             /\ UNCHANGED <<user, session, loading, error>>
        ELSE /\ fetch' = "done"
             /\ error' = IF out.k = "error" THEN "Failed to fetch user." ELSE error
             /\ IF mounted
                THEN /\ user' = IF out.user # NoUser THEN SafeUser(out.user) ELSE JsNull
                     /\ session' = JsNull
                     /\ loading' = FALSE
                ELSE UNCHANGED <<user, session, loading>>
    /\ UNCHANGED <<mounted, subscribed, signingOut, notified>>
    /\ UNCHANGED serverVars

\* the backend notifies the subscribed listener
onAuthStateChange ==
    /\ subscribed
    /\ \/ \E s \in Sessions :
            /\ session' = SafeSession(s)
            /\ user' = IF s.user # NoUser THEN SafeUser(s.user) ELSE JsNull
            /\ notified' = [k |-> "session", session |-> s]
       \/ /\ session' = JsNull
          /\ user' = JsNull
          /\ notified' = [k |-> "null"]
    /\ UNCHANGED <<loading, error, mounted, fetch, subscribed, signingOut>>
    /\ UNCHANGED serverVars

\* the effect's cleanup, when the provider is torn down
Cleanup ==
    /\ mounted
    /\ mounted' = FALSE
    /\ subscribed' = FALSE
    /\ UNCHANGED <<user, session, loading, error, fetch, signingOut, notified>>
    /\ UNCHANGED serverVars

\* what await supabase.auth.signOut() comes to: resolved without or with an
\* error value, or rejected
SignOutOutcomes == {"ok", "error", "rejected"}

\* signOut() is called: it awaits supabase.auth.signOut()
signOutCall ==
    /\ mounted
    /\ signingOut # "awaiting"
    /\ signingOut' = "awaiting"
    /\ UNCHANGED <<user, session, loading, error, mounted, fetch, subscribed, notified>>
    /\ UNCHANGED serverVars

\* a mutant of signOutSettles: the state is cleared only when the backend
\* reported no error
signOutSettles_KeepsOnError ==
    /\ signingOut = "awaiting"
    /\ \E out \in SignOutOutcomes :
          /\ signingOut' = out
          /\ IF out = "ok"
             THEN user' = JsNull /\ session' = JsNull
             ELSE UNCHANGED <<user, session>>
    /\ UNCHANGED <<loading, error, mounted, fetch, subscribed, notified>>
    /\ UNCHANGED serverVars

\* supabase.auth.signOut() settles: resolved (with or without an error value),
\* the state is cleared; rejected, signOut ends there. signingOut keeps the
\* outcome until the next call.
signOutSettles ==
    /\ signingOut = "awaiting"
    /\ \E out \in SignOutOutcomes :
          /\ signingOut' = out
          /\ IF out # "rejected"
             THEN user' = JsNull /\ session' = JsNull
             ELSE UNCHANGED <<user, session>>
    /\ UNCHANGED <<loading, error, mounted, fetch, subscribed, notified>>
    /\ UNCHANGED serverVars

BridgeNext ==
    \/ Mount
    \/ getUser
    \/ onAuthStateChange
    \/ Cleanup
    \/ signOutCall
    \/ signOutSettles

SpecBridge == Init /\ [][BridgeNext]_vars

---------------------------------------------------------------------------
(* The validators on their own: a text is handed to both copies of
   isValidPollText. *)

TagStarts ==
    {<<>>, ScriptOpen, <<"<","S","C","R","I","P","T">>, <<"<","S","c","r","I","p","t">>,
     <<"<","s","c","r","i","p">>, <<"s","c","r","i","p","t">>}

\* the texts: padding up to the lengths around the limits, then a prefix, the
\* start of a tag, what follows it, and a closing bracket
PollTexts ==
    {Pad(m) \o a \o b \o c \o d :
        a \in {<<>>, <<" ">>, <<"a">>},
        b \in TagStarts,
        c \in {<<>>, <<" ","s","r","c">>, <<"\n">>},
        d \in {<<>>, <<">">>},
        m \in {0, 1, 2, 191, 192, 193, 200, 201}}

ValidatorInputs == {Str(s) : s \in PollTexts} \cup {Undefined, FileEntry, Num(<<"4","2">>)}

ValidatorsInit ==
    /\ polls = {}
    /\ nextId = 1
    /\ votes = <<>>
    /\ req \in {Request("isValidPollText", 0, v) : v \in ValidatorInputs}
    /\ resp = NoResp
    /\ BridgeIdle

\* both copies are applied to the text
Validate ==
    /\ req.op = "isValidPollText"
    /\ resp.k = "none"
    /\ resp' = [k |-> "return", actions |-> isValidPollText(req.arg),
                route |-> routeIsValidPollText(req.arg)]
    /\ UNCHANGED <<polls, nextId, votes, req>>
    /\ UNCHANGED bridgeVars

SpecValidators == ValidatorsInit /\ [][Validate]_vars

---------------------------------------------------------------------------
(* Voting: submitVote against a table that holds one poll of two options. *)

\* the poll ids voted on: that of the stored poll and one no poll has
VotePollIds == {1, 2}
\* the option indexes: the first option, and one outside a 2-option poll
OptionIndexes == {0, 99}

SubmitVoteRequests ==
    {Request("submitVote", id, ix) : id \in VotePollIds, ix \in OptionIndexes}

VotesInit ==
    /\ polls = {PollRow(1, "u1", <<"a","b">>, <<Blue, Red>>)}
    /\ nextId = 2
    /\ votes = <<>>
    /\ req = NoReq
    /\ resp = NoResp
    /\ BridgeIdle

\* a vote is submitted
SubmitVoteArrives ==
    /\ req.op = "none"
    /\ Len(votes) < MaxVotes
    /\ req' \in SubmitVoteRequests
    /\ UNCHANGED <<polls, nextId, votes, resp>>
    /\ UNCHANGED bridgeVars

\* the handler submitVote runs to its end, under some replies of the backend
HandleSubmitVote ==
    /\ req.op = "submitVote"
    /\ resp.k = "none"
    /\ \E env \in Envs :
          LET o == submitVote(req.id, req.arg, env, votes)
          IN  /\ votes' = o.votes
              /\ resp' = [k |-> o.resp.k, error |-> o.resp.error, calls |-> o.resp.calls,
                          caller |-> env.auth.user, votesBefore |-> votes]
    /\ UNCHANGED <<polls, nextId, req>>
    /\ UNCHANGED bridgeVars

VotesNext ==
    \/ SubmitVoteArrives
    \/ HandleSubmitVote
    \/ Deliver

SpecVotes == VotesInit /\ [][VotesNext]_vars

---------------------------------------------------------------------------
(* The claims. *)

\* an invocation has ended and its response is still at hand
Ended == req.op # "none" /\ resp.k # "none"
\* it ended by returning a result
Returned == Ended /\ resp.k = "return"

\* the backend calls an ended invocation made
CallNames == {resp.calls[i].fn : i \in 1..Len(resp.calls)}

\* the text has a character that is not white space
NonBlank(s) == \E i \in 1..Len(s) : s[i] \notin WhiteSpace

\* how many entries are text that is non-empty after trimming
NonEmptyTrimmedCount(opts) ==
    Cardinality({i \in 1..Len(opts) : IsString(opts[i]) /\ NonBlank(opts[i].s)})

LowerCase(c) ==
    IF \E i \in 1..26 : UpperLetters[i] = c
    THEN LowerLetters[CHOOSE i \in 1..26 : UpperLetters[i] = c]
    ELSE c

\* s holds "<script" in any case, followed on the same line by ">"
ContainsOpeningScriptTag(s) ==
    \E i \in 1..Len(s) :
        /\ i + 6 <= Len(s)
        /\ \A d \in 1..7 : LowerCase(s[i + d - 1]) = ScriptOpen[d]
        /\ \E j \in (i + 7)..Len(s) :
                /\ s[j] = ">"
                /\ \A q \in (i + 7)..(j - 1) : s[q] # "\n" /\ s[q] # "\r"

\* a text a stored poll may hold: 2 to 200 characters, no opening script tag
GoodPollText(s) == Len(s) >= 2 /\ Len(s) <= 200 /\ ~ContainsOpeningScriptTag(s)

\* C1: a deletePoll or updatePoll whose caller is not the owner of a poll leaves
\* that poll in the table, with its question and options as they were, also when
\* the id it names is that poll's.
C1_NonOwnerLeavesPoll ==
    (Ended /\ req.op \in {"deletePoll", "updatePoll"}) =>
        \A r \in resp.before : r.user_id # resp.caller => r \in polls

\* C1, its case: an authenticated caller deleted by the id of another account's
\* poll, and was answered without error.
C1_Witness ==
    /\ Returned
    /\ req.op = "deletePoll"
    /\ resp.error = Null
    /\ resp.caller \in Users
    /\ \E r \in resp.before : r.id = req.id /\ r.user_id # resp.caller

\* C2: createPoll with fewer than 2 options that are non-empty after trimming
\* returns 'Please provide a question and at least two options.', whatever the
\* question entry and whatever the backend would answer.
C2_FewOptionsAlwaysRejected ==
    (Ended /\ req.op = "createPoll" /\ NonEmptyTrimmedCount(req.arg.options) < 2) =>
        /\ resp.k = "return"
        /\ resp.error = "Please provide a question and at least two options."

\* the errors of local validation
ValidationErrors ==
    {"Invalid email address.", "Password does not meet security requirements.",
     "Invalid name.", "Please provide a question and at least two options.",
     "Invalid poll question.", "Invalid poll option."}

WeakPassword == Str(<<"a","b","c","d","e","f","g","h">>)

\* C3: when login, register, createPoll or updatePoll rejects its input on local
\* validation, the invocation has made no backend call and the table is as it
\* was; register with a valid email and the password 'abcdefgh' is rejected
\* with 'Password does not meet security requirements.'.
C3_RejectedLocallyNoBackendCall ==
    /\ (Returned /\ req.op \in {"login", "register", "createPoll", "updatePoll"}
            /\ resp.error \in ValidationErrors) =>
          (Len(resp.calls) = 0 /\ polls = resp.before)
    /\ (Ended /\ req.op = "register" /\ req.arg.email = Str(Email_ab)
            /\ req.arg.password = WeakPassword) =>
          /\ resp.k = "return"
          /\ resp.error = "Password does not meet security requirements."
          /\ Len(resp.calls) = 0

\* C3, its case: register with password 'abcdefgh' has been answered.
C3_Witness ==
    /\ Returned
    /\ req.op = "register"
    /\ req.arg.email = Str(Email_ab)
    /\ req.arg.password = WeakPassword
    /\ resp.error = "Password does not meet security requirements."

\* C4: getUserPolls, when the identity check reports no authenticated account,
\* returns no polls and 'Not authenticated', and has made no backend call but
\* the identity check.
C4_NotAuthenticatedNoSelect ==
    (Returned /\ req.op = "getUserPolls" /\ resp.caller = NoUser) =>
        /\ resp.error = "Not authenticated"
        /\ resp.data = <<>>
        /\ CallNames = {"auth.getUser"}

\* C4, its case: the table holds polls and an unauthenticated getUserPolls was
\* answered.
C4_Witness ==
    /\ Returned
    /\ req.op = "getUserPolls"
    /\ resp.caller = NoUser
    /\ polls # {}

\* the errors each operation can return, apart from null
ErrorsOf(op) ==
    CASE op = "login" ->
            {"Invalid email address.", "Password does not meet security requirements.",
             "Authentication failed."}
      [] op = "register" ->
            {"Invalid email address.", "Password does not meet security requirements.",
             "Invalid name.", "Registration failed."}
      [] op = "logout" -> {"Logout failed."}
      [] op = "createPoll" ->
            {"Please provide a question and at least two options.",
             "Invalid poll question.", "Invalid poll option.", "Authentication failed.",
             "You must be logged in to create a poll.", "Poll creation failed."}
      [] op = "updatePoll" ->
            {"Please provide a question and at least two options.",
             "Invalid poll question.", "Invalid poll option.", "Authentication failed.",
             "You must be logged in to update a poll.", "Poll update failed."}
      [] op = "deletePoll" ->
            {"Authentication failed.", "You must be logged in to delete a poll.",
             "Poll deletion failed."}
      [] op = "getUserPolls" -> {"Not authenticated", "Failed to fetch polls."}
      [] op = "getPollById" -> {"Poll not found."}
      [] op = "GET" ->
            {"Not authenticated", "Failed to fetch polls.", "Internal server error"}
      [] op = "POST" ->
            {"Please provide a question and at least two options.",
             "Invalid poll question.", "Please provide at least two valid options.",
             "Invalid poll option.", "Authentication failed.",
             "You must be logged in to create a poll.", "Poll creation failed.",
             "Internal server error"}

\* what the caller of an invocation gets to see of it
Visible(r) == [k |-> r.k, error |-> r.error, status |-> r.status, data |-> r.data]

BodyFailsValidation(b) ==
    \/ b.k = "badjson"
    \/ ~IsString(b.question)
    \/ b.options.k # "array"
    \/ \E i \in 1..Len(b.options.items) : ~IsString(b.options.items[i])
    \/ NonEmptyTrimmedCount(b.options.items) < 2
    \/ ~GoodPollText(trim(b.question.s))
    \/ \E i \in 1..Len(b.options.items) :
          /\ NonBlank(b.options.items[i].s)
          /\ ~GoodPollText(trim(b.options.items[i].s))

\* C6: POST /api/polls answers 400 to every body that fails validation, 401 only
\* when the identity check reports no account, 500 only after a backend call,
\* and 201 only when the poll was inserted.
C6_PostStatusCodes ==
    (Returned /\ req.op = "POST") =>
        /\ BodyFailsValidation(req.arg) => resp.status = 400
        /\ resp.status = 401 => (~BodyFailsValidation(req.arg) /\ resp.caller = NoUser)
        /\ resp.status = 500 => CallNames # {}
        /\ resp.status = 201 =>
              (resp.before \subseteq polls /\ Cardinality(polls \ resp.before) = 1)

\* C7: every invocation of a handler ends by returning a result with an error
\* field, never by an uncaught exception.
C7_NoUncaughtFault == Ended => resp.k = "return"

C10_LoadingEndsWithFetch ==
    (mounted /\ fetch \in {"done", "rejected"}) => loading = FALSE

\* C11: when the backend call of signOut() returns, without or with an error
\* value, the held user and session are null from that step on, whether or not
\* a notification without a session was delivered.
C11_SignOutClears ==
    [][(signingOut = "awaiting" /\ signingOut' \in {"ok", "error"}) =>
          (user' = JsNull /\ session' = JsNull)]_vars

\* C11, its case: the last notification delivered carried the session of an
\* account, the first fetch is still pending, and a signOut() whose backend call
\* returned an error has left user and session null.
C11_Witness ==
    /\ signingOut = "error"
    /\ fetch = "pending"
    /\ notified.k = "session"
    /\ notified.session.user \in Users
    /\ user = JsNull
    /\ session = JsNull

\* C12: a deletePoll or updatePoll that reached its filtered statement for an
\* authenticated caller who owns no poll of the given id (the poll is another
\* account's, or there is none) affects no row, and returns error null unless
\* the backend itself reported a failure of the statement.
C12_ZeroRowsStillSuccess ==
    (/\ Returned
     /\ req.op \in {"deletePoll", "updatePoll"}
     /\ CallNames \cap {"polls.delete", "polls.update"} # {}
     /\ resp.caller \in Users
     /\ ~\E r \in resp.before : r.id = req.id /\ r.user_id = resp.caller) =>
        /\ polls = resp.before
        /\ resp.error \in {Null, "Poll deletion failed.", "Poll update failed."}
        /\ resp.error \in {"Poll deletion failed.", "Poll update failed."} =>
              \A e \in Envs :
                 (e.auth = Ok(resp.caller) /\ e.table.k = "ok") =>
                    Run(req, e, resp.before, nextId).resp.error = Null

\* C12, its case: an updatePoll with valid input by an authenticated caller, for
\* the id of another account's poll, was answered with error null and the table
\* is as it was.
C12_Witness ==
    /\ Returned
    /\ req.op = "updatePoll"
    /\ resp.caller \in Users
    /\ \E r \in resp.before : r.id = req.id /\ r.user_id # resp.caller
    /\ resp.error = Null
    /\ polls = resp.before

\* C13: a submitVote by an authenticated caller adds exactly one row, with the
\* poll id and option index as given and the caller's id, and returns error
\* null, for every option index and poll id and however many votes the account
\* already has on the poll (the only other result is 'Vote submission failed.',
\* with nothing added, and only when the backend reports an error); when the
\* identity check answers with no user nothing is added, no insert is made and
\* the result is 'You must be logged in to vote.'.
C13_VoteInsertedUnchecked ==
    (Returned /\ req.op = "submitVote") =>
        LET row == VoteRow(req.id, resp.caller, req.arg)
        IN  /\ resp.caller \in Users =>
                  /\ resp.error \in {Null, "Vote submission failed."}
                  /\ resp.error = Null => votes = Append(resp.votesBefore, row)
                  /\ resp.error # Null =>
                        /\ votes = resp.votesBefore
                        /\ \A e \in Envs :
                              (e.auth = Ok(resp.caller) /\ e.table.k = "ok") =>
                                 submitVote(req.id, req.arg, e, resp.votesBefore)
                                    = VoteOutcome(Return(Null, 0, <<>>, resp.calls),
                                                  Append(resp.votesBefore, row))
            /\ resp.caller = NoUser =>
                  /\ resp.error = "You must be logged in to vote."
                  /\ votes = resp.votesBefore
                  /\ CallNames = {"auth.getUser"}

\* C13, its case: an account that had already voted on the stored 2-option poll
\* voted again with option index 99, and a further row was added.
C13_Witness ==
    /\ Returned
    /\ req.op = "submitVote"
    /\ req.arg = 99
    /\ \E r \in polls : r.id = req.id /\ Len(r.options) = 2
    /\ resp.error = Null
    /\ \E i \in 1..Len(resp.votesBefore) :
          resp.votesBefore[i].poll_id = req.id /\ resp.votesBefore[i].user_id = resp.caller
    /\ Len(votes) = Len(resp.votesBefore) + 1

\* s without its leading and trailing white space (s is not blank)
Stripped(s) ==
    LET inked == {i \in 1..Len(s) : s[i] \notin WhiteSpace}
        lo == CHOOSE i \in inked : \A j \in inked : i <= j
        hi == CHOOSE i \in inked : \A j \in inked : j <= i
    IN  SubSeq(s, lo, hi)

\* out holds, in the order of xs and with repeated values kept, the stripped
\* text of every entry of xs that is not blank
KeptInOrder(xs, out) ==
    LET keep == {i \in 1..Len(xs) : NonBlank(xs[i].s)}
    IN  /\ Len(out) = Cardinality(keep)
        /\ \A i \in keep : out[Cardinality({j \in keep : j <= i})] = Stripped(xs[i].s)

\* C14: a createPoll that returns error null has added exactly one poll, under
\* an id no poll had, owned by the caller the identity check reported, with the
\* trimmed question and the trimmed non-empty options in their order with
\* repeated values kept; a createPoll that returns an error leaves the table as
\* it was.
C14_CreatePollFrame ==
    (Returned /\ req.op = "createPoll") =>
        IF resp.error = Null
        THEN /\ resp.caller \in Users
             /\ Cardinality(polls \ resp.before) = 1
             /\ resp.before \subseteq polls
             /\ \A r \in polls \ resp.before :
                   /\ \A b \in resp.before : b.id # r.id
                   /\ r.user_id = resp.caller
                   /\ r.question = Stripped(req.arg.question.s)
                   /\ KeptInOrder(req.arg.options, r.options)
        ELSE polls = resp.before

\* C14, its case: createPoll with the options 'Red', 'Red', ' ' was answered with
\* error null and a poll with the options 'Red', 'Red' was added to a table that
\* already held a poll.
C14_Witness ==
    /\ Returned
    /\ req.op = "createPoll"
    /\ req.arg.options = <<Str(Red), Str(Red), Str(<<" ">>)>>
    /\ resp.error = Null
    /\ resp.before # {}
    /\ \E r \in polls \ resp.before : r.options = <<Red, Red>>

\* the ids of the rows of a table
Ids(p) == {r.id : r \in p}

\* C15: in every step a stored poll keeps its id and user_id; a row under an id
\* that was not stored gets an id never used before (a deleted poll is not
\* created again); and a step of updatePoll leaves the set of stored ids as it
\* was and changes at most question and options of the row of the given id.
C15_IdAndOwnerImmutable ==
    [][/\ \A r \in polls : \A r2 \in polls' : r2.id = r.id => r2.user_id = r.user_id
       /\ \A r2 \in polls' : r2.id \notin Ids(polls) => r2.id >= nextId
       /\ req.op = "updatePoll" =>
             /\ Ids(polls') = Ids(polls)
             /\ Cardinality(polls') = Cardinality(polls)
             /\ \A r \in polls :
                   \/ r \in polls'
                   \/ /\ r.id = req.id
                      /\ \E r2 \in polls' :
                            r2 = [r EXCEPT !.question = r2.question,
                                           !.options = r2.options]]_vars

\* C15, its case: after the poll of id 1 was deleted, an updatePoll changed the
\* poll of id 2, which kept its id and owner, and no poll of id 1 exists.
C15_Witness ==
    /\ Returned
    /\ req.op = "updatePoll"
    /\ resp.error = Null
    /\ polls # resp.before
    /\ Ids(polls) = {2}
    /\ Ids(resp.before) = {2}
    /\ \A r \in polls : \A b \in resp.before : r.user_id = b.user_id

\* C16: while the last notification delivered carried a session and signOut()
\* has not been called, the held session is the {user_id, access_token}
\* projection of that session.
C16_SessionHeldAfterNotification ==
    (notified.k = "session" /\ signingOut = "no") =>
        session = SafeSession(notified.session)

\* C17: after the effect's cleanup no step other than signOut's changes the held
\* user, session, loading flag or error string.
C17_NothingChangesAfterTeardown ==
    [][(~mounted /\ fetch # "none" /\ signingOut' = signingOut) =>
          UNCHANGED <<user, session, loading, error>>]_vars

\* C18: every name register hands to auth.signUp as user metadata has at least
\* 2 characters and holds no script block.
C18_SentNameValid ==
    (Ended /\ req.op = "register") =>
        \A i \in 1..Len(resp.calls) :
            resp.calls[i].fn = "auth.signUp" =>
                /\ Len(resp.calls[i].arg.name) >= 2
                /\ isValidName(Str(resp.calls[i].arg.name))

====
